---------------------------- MODULE Spec2Model ----------------------------
(***************************************************************************)
(* Minesweeper (Gemi-SaoLei): the game engine (createEmptyBoard,           *)
(* placeMines, revealCell, checkWin, revealAllMines) and the session state *)
(* machine of App.tsx that drives it.                                      *)
(*                                                                         *)
(* The specifications share the variables:                                 *)
(*   Spec        the session: reset, difficulty change, cell click, flag.  *)
(*   SpecHint    the session with the AI hint and the timer, on small      *)
(*               boards; SpecPlay, the same boards without hint and timer, *)
(*               for a player who goes on playing.                         *)
(*   SpecEngine  the engine functions applied once to a board drawn from a *)
(*               bounded set of boards; the call and its result are kept   *)
(*               in the variable call.                                     *)
(*   SpecPlace   the while loop of placeMines, one sample at a time.       *)
(* Handlers run on the state of the latest render (React re-creates the    *)
(* memoised callbacks whenever board or gameStatus changes).               *)
(***************************************************************************)
EXTENDS Integers, Sequences, FiniteSets, TLC

VARIABLES
    difficulty,     \* App.tsx useState<Difficulty>: [rows, cols, mines]
    board,          \* App.tsx useState<CellData[][]>: row -> col -> cell
    gameStatus,     \* App.tsx useState<GameStatus>
    minesLeft,      \* App.tsx useState<number>
    timer,          \* App.tsx useState<number>
    isAiThinking,   \* App.tsx useState(false)
    aiHint,         \* App.tsx useState<AIHint | null>
    call            \* the call followed: the engine call made and its result
                    \* (SpecEngine, SpecPlace), the getAIHint call (SpecHint)

vars == <<difficulty, board, gameStatus, minesLeft, timer, isAiThinking, aiHint, call>>

-----------------------------------------------------------------------------
(* Bounds of the model *)

\* session boards have at most MaxCells cells and at most MaxMines mines
MaxCells == 8
MaxMines == 2
\* at most this many flags stand on the session board at once
MaxFlags == 1
\* engine input boards have at most EngCells cells (and MaxMines mines), of
\* which at most MaxTouched are not HIDDEN
EngCells == 6
MaxTouched == 1
\* the session with hints and timer, and the session of the player who goes
\* on playing, run on boards of at most HintCells cells; the timer is
\* followed up to MaxTimer ticks
HintCells == 5
MaxTimer == 2

-----------------------------------------------------------------------------
(* types.ts *)

EMPTY == 0
MINE == -1

HIDDEN == "HIDDEN"
REVEALED == "REVEALED"
FLAGGED == "FLAGGED"
QUESTION == "QUESTION"
CellState == {HIDDEN, REVEALED, FLAGGED, QUESTION}

IDLE == "IDLE"
PLAYING == "PLAYING"
WON == "WON"
LOST == "LOST"
GameStatus == {IDLE, PLAYING, WON, LOST}

\* the absent AIHint (null)
NoHint == [null |-> TRUE]

-----------------------------------------------------------------------------
(* Board helpers *)

NumRows(b) == Cardinality(DOMAIN b)
NumCols(b) == Cardinality(DOMAIN b[0])
Cells(b) == (DOMAIN b) \X (DOMAIN b[0])

\* board b with the cell at (r, c) replaced
SetCell(b, r, c, cell) ==
    [i \in DOMAIN b |->
        [j \in DOMAIN b[i] |-> IF i = r /\ j = c THEN cell ELSE b[i][j]]]

\* the in-bounds cells of the 3x3 block centred on (r, c), (r, c) included
Block(rows, cols, r, c) ==
    {k \in (0..rows-1) \X (0..cols-1) :
        /\ k[1] >= r - 1 /\ k[1] <= r + 1
        /\ k[2] >= c - 1 /\ k[2] <= c + 1}

-----------------------------------------------------------------------------
(* gameEngine: createEmptyBoard *)

\* a board whose cells carry their coordinates swapped
createEmptyBoardSwapped(rows, cols) ==
    [r \in 0..rows-1 |->
        [c \in 0..cols-1 |->
            [row |-> c, col |-> r, value |-> EMPTY, state |-> HIDDEN,
             isExploded |-> FALSE]]]

createEmptyBoard(rows, cols) ==
    [r \in 0..rows-1 |->
        [c \in 0..cols-1 |->
            [row |-> r, col |-> c, value |-> EMPTY, state |-> HIDDEN,
             isExploded |-> FALSE]]]

-----------------------------------------------------------------------------
(* gameEngine: placeMines *)

\* JSON.parse(JSON.stringify(board)): a new board rebuilt field by field; an
\* absent isExploded stays absent (FALSE), a true one stays true
JsonClone(b) ==
    [r \in DOMAIN b |->
        [c \in DOMAIN b[r] |->
            [row |-> b[r][c].row, col |-> b[r][c].col, value |-> b[r][c].value,
             state |-> b[r][c].state, isExploded |-> b[r][c].isExploded]]]

\* a safe zone that leaves out the neighbours of the clicked cell
SafeZoneCellOnly(safeRow, safeCol) ==
    {<<safeRow, safeCol>>}

\* the keys `${r},${c}` added to safeZone: all nine, in bounds or not
SafeZone(safeRow, safeCol) ==
    (safeRow-1..safeRow+1) \X (safeCol-1..safeCol+1)

\* the samples (r, c) the while loop accepts on newBoard
Accepted(nb, d, safeZone) ==
    {a \in (0..d.rows-1) \X (0..d.cols-1) :
        nb[a[1]][a[2]].value # MINE /\ a \notin safeZone}

\* newBoard[r][c].value = CellValue.MINE
SetMine(nb, r, c) ==
    SetCell(nb, r, c, [nb[r][c] EXCEPT !.value = MINE])

\* the while loop: every board it can end with. A rejected sample changes
\* nothing; with the quota unmet and no acceptable cell the loop has no exit.
RECURSIVE PlaceLoop(_, _, _, _)
PlaceLoop(nb, d, safeZone, minesPlaced) ==
    IF minesPlaced < d.mines
    THEN UNION { PlaceLoop(SetMine(nb, sample[1], sample[2]), d, safeZone,
                           minesPlaced + 1) : sample \in Accepted(nb, d, safeZone) }
    ELSE {nb}

\* a neighbour count that wraps around the edges of the grid
CountMinesWrap(nb, d, r, c) ==
    Cardinality({o \in (-1..1) \X (-1..1) :
        nb[(r + o[1] + d.rows) % d.rows][(c + o[2] + d.cols) % d.cols].value = MINE})

\* the neighbour count of (r, c): the 3x3 offsets that fall inside the grid
\* of difficulty d and hold a mine
CountMines(nb, d, r, c) ==
    Cardinality({o \in (-1..1) \X (-1..1) :
        /\ r + o[1] >= 0 /\ r + o[1] < d.rows
        /\ c + o[2] >= 0 /\ c + o[2] < d.cols
        /\ nb[r + o[1]][c + o[2]].value = MINE})

\* "Calculate numbers": mines keep their value, every other cell of the
\* difficulty's grid gets its count
CalcNumbers(nb, d) ==
    [r \in DOMAIN nb |->
        [c \in DOMAIN nb[r] |->
            IF r < d.rows /\ c < d.cols /\ nb[r][c].value # MINE
            THEN [nb[r][c] EXCEPT !.value = CountMines(nb, d, r, c)]
            ELSE nb[r][c]]]

\* every board placeMines(board, difficulty, safeRow, safeCol) can return
placeMines(b, d, safeRow, safeCol) ==
    { CalcNumbers(nb, d) :
        nb \in PlaceLoop(JsonClone(b), d, SafeZone(safeRow, safeCol), 0) }

-----------------------------------------------------------------------------
(* gameEngine: revealCell *)

\* Arrays are objects: a board is an array of references to row arrays. The
\* row objects live in a store, row object i being row i of the input board.
\* `[...board]`: a new outer array holding the same row objects
SpreadRows(b) == [i \in DOMAIN b |-> i]

\* newBoard[r][c]
Load(store, refs, r, c) == store[refs[r]][c]

\* newBoard[r][c] = cell: a write into the row object newBoard[r]
Store(store, refs, r, c, cell) ==
    [ref \in DOMAIN store |->
        IF ref = refs[r]
        THEN [j \in DOMAIN store[ref] |-> IF j = c THEN cell ELSE store[ref][j]]
        ELSE store[ref]]

\* the board seen through an outer array
View(store, refs) == [i \in DOMAIN refs |-> store[refs[i]]]

\* offsets that leave out the diagonals
OffsetsOrthogonal ==
    << <<-1, 0>>, <<0, -1>>, <<0, 0>>, <<0, 1>>, <<1, 0>> >>

\* the (i, j) pairs of the two nested for loops, in loop order
Offsets ==
    << <<-1, -1>>, <<-1, 0>>, <<-1, 1>>,
       << 0, -1>>, << 0, 0>>, << 0, 1>>,
       << 1, -1>>, << 1, 0>>, << 1, 1>> >>

\* a neighbour test that lets flagged cells through
IsNotRevealed(cell) == cell.state # REVEALED

\* neighbor.state === CellState.HIDDEN
IsHidden(cell) == cell.state = HIDDEN

\* one pass of the inner loops for the dequeued cell (currR, currC), from
\* offset k on; st = [store, queue]
RECURSIVE VisitNeighbors(_, _, _, _, _)
VisitNeighbors(st, refs, currR, currC, k) ==
    IF k > Len(Offsets) THEN st
    ELSE
        LET nr == currR + Offsets[k][1]
            nc == currC + Offsets[k][2]
            inGrid == /\ nr >= 0 /\ nr < Cardinality(DOMAIN refs)
                      /\ nc >= 0 /\ nc < Cardinality(DOMAIN st.store[refs[0]])
        IN  IF inGrid /\ IsHidden(Load(st.store, refs, nr, nc))
            THEN LET neighbor == Load(st.store, refs, nr, nc)
                     revealed == Store(st.store, refs, nr, nc,
                                       [neighbor EXCEPT !.state = REVEALED])
                 IN  VisitNeighbors(
                        [store |-> revealed,
                         queue |-> IF neighbor.value = 0
                                   THEN Append(st.queue, <<nr, nc>>)
                                   ELSE st.queue],
                        refs, currR, currC, k + 1)
            ELSE VisitNeighbors(st, refs, currR, currC, k + 1)

\* while (head < queue.length); head counts from 1 here
RECURSIVE Flood(_, _, _)
Flood(st, refs, head) ==
    IF head > Len(st.queue) THEN st
    ELSE
        LET currR == st.queue[head][1]
            currC == st.queue[head][2]
        IN  IF Load(st.store, refs, currR, currC).value = 0
            THEN Flood(VisitNeighbors(st, refs, currR, currC, 1), refs, head + 1)
            ELSE Flood(st, refs, head + 1)

\* a guard that lets a flagged cell through
IsRevealed(cell) == cell.state = REVEALED

\* cell.state !== CellState.HIDDEN
NotHidden(cell) == cell.state # HIDDEN

\* a mine revealed without its exploded mark
RevealOnly(cell) == [cell EXCEPT !.state = REVEALED]

\* { ...cell, state: CellState.REVEALED, isExploded: true }
Explode(cell) == [cell EXCEPT !.state = REVEALED, !.isExploded = TRUE]

\* a start of the flood fill that leaves the start cell hidden
SkipInitialMark(store, refs, row, col) == store

\* newBoard[row][col] = { ...cell, state: CellState.REVEALED }
MarkInitial(store, refs, row, col) ==
    Store(store, refs, row, col,
          [Load(store, refs, row, col) EXCEPT !.state = REVEALED])

\* revealCell(board, row, col): the returned board and hitMine, the queue as
\* the loop left it, and input: the caller's board as it is after the call
revealCell(b, row, col) ==
    LET newBoard == SpreadRows(b)
        cell == Load(b, newBoard, row, col)
        Result(st, hit) ==
            [board |-> View(st.store, newBoard), hitMine |-> hit,
             queue |-> st.queue, input |-> View(st.store, [i \in DOMAIN b |-> i])]
    IN  IF NotHidden(cell)
        THEN Result([store |-> b, queue |-> <<>>], FALSE)
        ELSE IF cell.value = MINE
        THEN Result([store |-> Store(b, newBoard, row, col, Explode(cell)),
                     queue |-> <<>>], TRUE)
        ELSE Result(Flood([store |-> MarkInitial(b, newBoard, row, col),
                           queue |-> << <<row, col>> >>], newBoard, 1), FALSE)

-----------------------------------------------------------------------------
(* gameEngine: checkWin, revealAllMines *)

\* a win check that forgets the flagged cells
checkWinHiddenOnly(b, mines) ==
    Cardinality({w \in Cells(b) : b[w[1]][w[2]].state = HIDDEN}) = mines

checkWin(b, mines) ==
    LET hiddenOrFlaggedCount ==
            Cardinality({w \in Cells(b) :
                b[w[1]][w[2]].state = HIDDEN \/ b[w[1]][w[2]].state = FLAGGED})
    IN  hiddenOrFlaggedCount = mines

\* an endgame reveal that leaves flagged mines flagged
revealHiddenMines(b) ==
    [r \in DOMAIN b |->
        [c \in DOMAIN b[r] |->
            IF b[r][c].value = MINE /\ b[r][c].state = HIDDEN
            THEN [b[r][c] EXCEPT !.state = REVEALED]
            ELSE b[r][c]]]

revealAllMines(b) ==
    [r \in DOMAIN b |->
        [c \in DOMAIN b[r] |->
            IF b[r][c].value = MINE
            THEN [b[r][c] EXCEPT !.state = REVEALED]
            ELSE b[r][c]]]

-----------------------------------------------------------------------------
(* App.tsx: the session *)

\* the largest safe zone a click can have on a rows x cols board
MaxZone(rows, cols) ==
    (IF rows < 3 THEN rows ELSE 3) * (IF cols < 3 THEN cols ELSE 3)

\* the difficulty presets, scaled to the bounds; like DIFFICULTIES they are
\* no taller than wide and leave room for the mines outside every safe zone
Difficulties ==
    {d \in [rows : 1..MaxCells, cols : 1..MaxCells, mines : 0..MaxMines] :
        /\ d.rows <= d.cols
        /\ d.rows * d.cols <= MaxCells
        /\ d.mines < d.rows * d.cols - MaxZone(d.rows, d.cols)}

FlaggedCells(b) == {f \in Cells(b) : b[f[1]][f[2]].state = FLAGGED}

NoCall ==
    [op |-> "none", row |-> 0, col |-> 0, mines |-> 0, out |-> <<>>,
     hitMine |-> FALSE, win |-> FALSE, input |-> <<>>, queue |-> <<>>,
     minesPlaced |-> 0, outdated |-> FALSE]

\* the getAIHint call that is out, or the last to return, after a step to
\* board b2 from board b1: outdated once the board has changed by a reveal
\* or a reset since the request left (history, not program state)
Overtaken(c, b1, b2) ==
    IF c.op = "getAIHint" /\ b2 # b1 THEN [c EXCEPT !.outdated = TRUE] ELSE c

\* an initGame that lets the timer stand
initGameKeepTimer(d) ==
    /\ board' = createEmptyBoard(d.rows, d.cols)
    /\ gameStatus' = IDLE
    /\ minesLeft' = d.mines
    /\ timer' = timer
    /\ aiHint' = NoHint

\* initGame, for difficulty d
initGame(d) ==
    /\ board' = createEmptyBoard(d.rows, d.cols)
    /\ gameStatus' = IDLE
    /\ minesLeft' = d.mines
    /\ timer' = 0
    /\ aiHint' = NoHint

\* the mount effect has run initGame for the initial difficulty
Init ==
    /\ difficulty \in Difficulties
    /\ board = createEmptyBoard(difficulty.rows, difficulty.cols)
    /\ gameStatus = IDLE
    /\ minesLeft = difficulty.mines
    /\ timer = 0
    /\ isAiThinking = FALSE
    /\ aiHint = NoHint
    /\ call = NoCall

\* the face button: onClick={initGame}
Reset ==
    /\ initGame(difficulty)
    /\ call' = Overtaken(call, board, board')
    /\ UNCHANGED <<difficulty, isAiThinking>>

\* the select's onChange: setDifficulty, then the effect on initGame
ChangeDifficulty ==
    \E d \in Difficulties :
        /\ d # difficulty
        /\ difficulty' = d
        /\ initGame(d)
        /\ call' = Overtaken(call, board, board')
        /\ UNCHANGED isAiThinking

\* a guard that stops the handlers after a loss only
OverLostOnly(status) == status = LOST

\* gameStatus === GameStatus.WON || gameStatus === GameStatus.LOST
Over(status) == status = WON \/ status = LOST

\* a flag toggle that forgets the counter
CellContextNoCount(r, c) ==
    IF Over(gameStatus) \/ board[r][c].state = REVEALED
    THEN UNCHANGED <<board, minesLeft>>
    ELSE /\ board' = SetCell(board, r, c,
                [board[r][c] EXCEPT !.state =
                    IF board[r][c].state = HIDDEN THEN FLAGGED ELSE HIDDEN])
         /\ UNCHANGED minesLeft

\* a flag toggle without the early return on a revealed cell
CellContextOnRevealed(r, c) ==
    IF Over(gameStatus)
    THEN UNCHANGED <<board, minesLeft>>
    ELSE IF board[r][c].state = FLAGGED
    THEN /\ board' = SetCell(board, r, c, [board[r][c] EXCEPT !.state = HIDDEN])
         /\ minesLeft' = minesLeft + 1
    ELSE /\ board' = SetCell(board, r, c, [board[r][c] EXCEPT !.state = FLAGGED])
         /\ minesLeft' = minesLeft - 1

\* the body of handleCellContext(r, c)
CellContext(r, c) ==
    IF Over(gameStatus)
    THEN UNCHANGED <<board, minesLeft>>
    ELSE IF board[r][c].state = REVEALED
    THEN UNCHANGED <<board, minesLeft>>
    ELSE IF board[r][c].state = HIDDEN
    THEN /\ board' = SetCell(board, r, c, [board[r][c] EXCEPT !.state = FLAGGED])
         /\ minesLeft' = minesLeft - 1
    ELSE IF board[r][c].state = FLAGGED
    THEN /\ board' = SetCell(board, r, c, [board[r][c] EXCEPT !.state = HIDDEN])
         /\ minesLeft' = minesLeft + 1
    ELSE UNCHANGED <<board, minesLeft>>

\* right click or long press on cell (r, c)
handleCellContext ==
    \E target \in Cells(board) :
        /\ board[target[1]][target[2]].state = HIDDEN
              => Cardinality(FlaggedCells(board)) < MaxFlags
        /\ CellContext(target[1], target[2])
        /\ UNCHANGED <<difficulty, gameStatus, timer, isAiThinking, aiHint, call>>

\* a first-move test that holds on every move of a game not yet over
FirstMoveEveryMove(status) == status = IDLE \/ status = PLAYING

\* gameStatus === GameStatus.IDLE: the click is the first move
FirstMove(status) == status = IDLE

\* handleCellClick(r, c) past the flag toggle: first-move placement,
\* revealCell, then loss or win
RevealMove(r, c) ==
    \E currentBoard \in IF FirstMove(gameStatus)
                        THEN placeMines(board, difficulty, r, c)
                        ELSE {board} :
        LET res == revealCell(currentBoard, r, c)
            nextBoard == res.board
        IN  /\ board' = IF res.hitMine THEN revealAllMines(nextBoard) ELSE nextBoard
            /\ gameStatus' =
                  IF res.hitMine THEN LOST
                  ELSE IF checkWin(nextBoard, difficulty.mines) THEN WON
                  ELSE IF gameStatus = IDLE THEN PLAYING
                  ELSE gameStatus
            /\ minesLeft' =
                  IF ~res.hitMine /\ checkWin(nextBoard, difficulty.mines)
                  THEN 0 ELSE minesLeft
            /\ aiHint' = NoHint

\* left click on cell (r, c); isDragging is the drag flag at the click
handleCellClick ==
    \E click \in Cells(board), isDragging \in BOOLEAN :
        /\ IF isDragging
           THEN UNCHANGED <<board, gameStatus, minesLeft, aiHint, call>>
           ELSE IF Over(gameStatus)
           THEN UNCHANGED <<board, gameStatus, minesLeft, aiHint, call>>
           ELSE IF board[click[1]][click[2]].state = FLAGGED
           THEN /\ CellContext(click[1], click[2])
                /\ UNCHANGED <<gameStatus, aiHint, call>>
           ELSE /\ RevealMove(click[1], click[2])
                /\ call' = Overtaken(call, board, board')
        /\ UNCHANGED <<difficulty, timer, isAiThinking>>

Next ==
    \/ Reset
    \/ ChangeDifficulty
    \/ handleCellContext
    \/ handleCellClick

Spec == Init /\ [][Next]_vars

-----------------------------------------------------------------------------
(* The session with its timer and the AI hint (geminiService) *)

\* Math.min(t + 1, 999)
TimerCap == 999

\* the hints a reply can carry: AIHint, its reasoning text left out
HintValues == [row : {0}, col : 0..1, action : {"reveal", "flag"}]

\* what generateContent does: the call rejects (network, quota), or the
\* response has no text, or a text that is not JSON, or the JSON of a hint
Replies ==
    {[kind |-> k, json |-> NoHint] : k \in {"rejected", "empty", "malformed"}}
        \cup {[kind |-> "json", json |-> h] : h \in HintValues}

\* a getAIHint that hands the failure of the call on to its caller
getAIHintUncaught(apiKey, reply) ==
    IF ~apiKey THEN NoHint
    ELSE IF reply.kind = "empty" THEN NoHint
    ELSE IF reply.kind = "json" THEN reply.json
    ELSE [error |-> reply.kind]

\* getAIHint: null without API key; null when the call or JSON.parse throws
\* (caught) or the response text is empty; else the parsed hint.  The board
\* and the counter only go into the prompt; the reply is the service's.
getAIHint(apiKey, reply) ==
    IF ~apiKey THEN NoHint
    ELSE IF reply.kind = "rejected" THEN NoHint
    ELSE IF reply.kind = "empty" THEN NoHint
    ELSE IF reply.kind = "malformed" THEN NoHint
    ELSE reply.json

\* handleAskAI up to its await: the request leaves
handleAskAI ==
    /\ IF gameStatus # PLAYING /\ gameStatus # IDLE
       THEN UNCHANGED <<isAiThinking, aiHint, call>>
       ELSE IF isAiThinking
       THEN UNCHANGED <<isAiThinking, aiHint, call>>
       ELSE /\ isAiThinking' = TRUE
            /\ aiHint' = NoHint
            /\ call' = [NoCall EXCEPT !.op = "getAIHint"]
    /\ UNCHANGED <<difficulty, board, gameStatus, minesLeft, timer>>

\* handleAskAI after its await: getAIHint has settled.  isAiThinking is
\* TRUE exactly while a request is out.
HintReturns ==
    /\ isAiThinking
    /\ \E apiKey \in BOOLEAN, reply \in Replies :
         LET hint == getAIHint(apiKey, reply)
         IN  aiHint' = IF hint # NoHint THEN hint ELSE aiHint
    /\ isAiThinking' = FALSE
    /\ call' = [call EXCEPT !.op = "getAIHint:returned"]
    /\ UNCHANGED <<difficulty, board, gameStatus, minesLeft, timer>>

\* the interval of the timer effect, running while the status is PLAYING
TimerTick ==
    /\ gameStatus = PLAYING
    /\ timer < MaxTimer
    /\ timer' = IF timer + 1 < TimerCap THEN timer + 1 ELSE TimerCap
    /\ UNCHANGED <<difficulty, board, gameStatus, minesLeft, isAiThinking, aiHint, call>>

InitHint ==
    /\ Init
    /\ difficulty.rows * difficulty.cols <= HintCells

\* the select's onChange, among the difficulties of at most HintCells cells
ChangeDifficultySmall ==
    /\ ChangeDifficulty
    /\ difficulty'.rows * difficulty'.cols <= HintCells

NextHint ==
    \/ Reset
    \/ ChangeDifficultySmall
    \/ handleCellContext
    \/ handleCellClick
    \/ handleAskAI
    \/ HintReturns
    \/ TimerTick

SpecHint == InitHint /\ [][NextHint]_vars

\* the session without hints and timer, on the same small boards
NextPlay ==
    \/ Reset
    \/ ChangeDifficultySmall
    \/ handleCellContext
    \/ handleCellClick

\* the session of a player who goes on playing: while some click, flag
\* action, reset or change of difficulty would change the state, one is
\* made in the end
SpecPlay == InitHint /\ [][NextPlay]_vars /\ WF_vars(NextPlay)

-----------------------------------------------------------------------------
(* The engine functions, each applied once to an input board *)

\* the grids of the input boards
EngineGrids ==
    {g \in (1..EngCells) \X (1..EngCells) : g[1] * g[2] <= EngCells}

\* the board of a mine layout, its numbers computed as placeMines computes
\* them, with the cells of revealedCells REVEALED, those of flaggedCells
\* FLAGGED and the cells of explodedCells marked exploded
MakeBoard(rows, cols, layout, revealedCells, flaggedCells, explodedCells) ==
    LET mined == [r \in 0..rows-1 |-> [c \in 0..cols-1 |->
                    [row |-> r, col |-> c,
                     value |-> IF <<r, c>> \in layout THEN MINE ELSE EMPTY,
                     state |-> IF <<r, c>> \in revealedCells THEN REVEALED
                               ELSE IF <<r, c>> \in flaggedCells THEN FLAGGED
                               ELSE HIDDEN,
                     isExploded |-> <<r, c>> \in explodedCells]]]
    IN  CalcNumbers(mined, [rows |-> rows, cols |-> cols, mines |-> Cardinality(layout)])

\* at most one cell of a board is exploded, and it is a revealed mine
ExplodedChoices(layout, revealedCells) ==
    {{}} \cup {{x} : x \in layout \cap revealedCells}

InitEngine ==
    \E g \in EngineGrids :
      \E layout \in SUBSET ((0..g[1]-1) \X (0..g[2]-1)) :
        \E touched \in SUBSET ((0..g[1]-1) \X (0..g[2]-1)) :
          \E flaggedCells \in SUBSET touched :
            \E explodedCells \in ExplodedChoices(layout, touched \ flaggedCells) :
              /\ Cardinality(layout) <= MaxMines
              /\ Cardinality(touched) <= MaxTouched
              /\ difficulty = [rows |-> g[1], cols |-> g[2],
                               mines |-> Cardinality(layout)]
              /\ board = MakeBoard(g[1], g[2], layout, touched \ flaggedCells,
                                   flaggedCells, explodedCells)
              /\ gameStatus = IDLE
              /\ minesLeft = 0
              /\ timer = 0
              /\ isAiThinking = FALSE
              /\ aiHint = NoHint
              /\ call = NoCall

SessionVars == <<difficulty, board, gameStatus, minesLeft, timer, isAiThinking, aiHint>>

\* a board as App passes it to placeMines: no mine, no number, nothing revealed
Unmined(b) ==
    \A u \in Cells(b) :
        /\ b[u[1]][u[2]].value = EMPTY
        /\ b[u[1]][u[2]].state # REVEALED

\* createEmptyBoard for the rows and cols of the grid drawn in InitEngine
CallCreateEmptyBoard ==
    /\ call.op = "none"
    /\ call' = [NoCall EXCEPT !.op = "createEmptyBoard",
                  !.row = difficulty.rows, !.col = difficulty.cols,
                  !.out = createEmptyBoard(difficulty.rows, difficulty.cols),
                  !.input = board]
    /\ UNCHANGED SessionVars

CallPlaceMines ==
    /\ call.op = "none"
    /\ Unmined(board)
    /\ \E safe \in Cells(board), m \in 0..MaxMines :
         \E res \in placeMines(board, [difficulty EXCEPT !.mines = m],
                               safe[1], safe[2]) :
            call' = [NoCall EXCEPT !.op = "placeMines", !.row = safe[1],
                        !.col = safe[2], !.mines = m, !.out = res,
                        !.input = board]
    /\ UNCHANGED SessionVars

CallRevealCell ==
    /\ call.op = "none"
    /\ \E target \in Cells(board) :
         LET res == revealCell(board, target[1], target[2])
         IN  call' = [NoCall EXCEPT !.op = "revealCell", !.row = target[1],
                        !.col = target[2], !.out = res.board,
                        !.hitMine = res.hitMine, !.input = res.input,
                        !.queue = res.queue]
    /\ UNCHANGED SessionVars

CallCheckWin ==
    /\ call.op = "none"
    /\ \E m \in -1..(NumRows(board) * NumCols(board) + 1) :
         call' = [NoCall EXCEPT !.op = "checkWin", !.mines = m,
                    !.win = checkWin(board, m), !.out = board, !.input = board]
    /\ UNCHANGED SessionVars

CallRevealAllMines ==
    /\ call.op = "none"
    /\ call' = [NoCall EXCEPT !.op = "revealAllMines",
                  !.out = revealAllMines(board), !.input = board]
    /\ UNCHANGED SessionVars

NextEngine ==
    \/ CallCreateEmptyBoard
    \/ CallPlaceMines
    \/ CallRevealCell
    \/ CallCheckWin
    \/ CallRevealAllMines

SpecEngine == InitEngine /\ [][NextEngine]_vars

-----------------------------------------------------------------------------
(* placeMines, one sample of its while loop at a time *)

\* placeMines has been called on an empty board and stands before its loop:
\* call.out is newBoard, call.mines is difficulty.mines
InitPlace ==
    \E g \in EngineGrids :
      \E safe \in (0..g[1]-1) \X (0..g[2]-1), m \in 0..MaxMines :
        /\ difficulty = [rows |-> g[1], cols |-> g[2], mines |-> m]
        /\ board = createEmptyBoard(g[1], g[2])
        /\ gameStatus = IDLE
        /\ minesLeft = m
        /\ timer = 0
        /\ isAiThinking = FALSE
        /\ aiHint = NoHint
        /\ call = [NoCall EXCEPT !.op = "placeMines:loop", !.row = safe[1],
                      !.col = safe[2], !.mines = m, !.out = JsonClone(board),
                      !.input = board]

\* one round of the while loop: Math.random draws a cell of the grid; an
\* accepted sample becomes a mine, a rejected one changes nothing
SampleCell ==
    /\ call.op = "placeMines:loop"
    /\ call.minesPlaced < difficulty.mines
    /\ \E sample \in (0..difficulty.rows-1) \X (0..difficulty.cols-1) :
         IF sample \in Accepted(call.out, difficulty, SafeZone(call.row, call.col))
         THEN call' = [call EXCEPT !.out = SetMine(call.out, sample[1], sample[2]),
                                   !.minesPlaced = call.minesPlaced + 1]
         ELSE UNCHANGED call
    /\ UNCHANGED SessionVars

\* the loop condition fails: the numbers are calculated and the board returned
ExitLoop ==
    /\ call.op = "placeMines:loop"
    /\ ~(call.minesPlaced < difficulty.mines)
    /\ call' = [call EXCEPT !.op = "placeMines:returned",
                            !.out = CalcNumbers(call.out, difficulty)]
    /\ UNCHANGED SessionVars

NextPlace ==
    \/ SampleCell
    \/ ExitLoop

\* fair sampling: while some cell of the grid would be accepted, such a cell
\* is drawn in the end
SpecPlace ==
    InitPlace /\ [][NextPlace]_vars /\ WF_vars(SampleCell) /\ WF_vars(ExitLoop)

-----------------------------------------------------------------------------
(* Properties of the engine functions, under SpecEngine *)

MineCells(b) == {x \in Cells(b) : b[x[1]][x[2]].value = MINE}

\* the cells of b next to (r, c): at most 8, none across an edge
Neighbors(b, r, c) ==
    {n \in Cells(b) :
        /\ n # <<r, c>>
        /\ n[1] - r \in -1..1
        /\ n[2] - c \in -1..1}

\* C1: when mines < rows*cols - |in-bounds 3x3 block of the safe cell|,
\* every board placeMines returns has exactly `mines` mine cells, and neither
\* the safe cell nor any of its in-bounds neighbours is a mine.
C1_MineCountAndSafeZone ==
    (/\ call.op = "placeMines"
     /\ call.mines < difficulty.rows * difficulty.cols
            - Cardinality(Block(difficulty.rows, difficulty.cols, call.row, call.col)))
    => /\ Cardinality(MineCells(call.out)) = call.mines
       /\ \A z \in Block(difficulty.rows, difficulty.cols, call.row, call.col) :
             call.out[z[1]][z[2]].value # MINE

\* placeMines has placed two mines around a safe cell in a corner or on an
\* edge, whose block is clipped by the grid
C1_Witness ==
    /\ call.op = "placeMines"
    /\ call.mines = 2
    /\ Cardinality(MineCells(call.out)) = 2
    /\ Cardinality(Block(difficulty.rows, difficulty.cols, call.row, call.col)) \in 2..6
    /\ call.mines < difficulty.rows * difficulty.cols
            - Cardinality(Block(difficulty.rows, difficulty.cols, call.row, call.col))

\* C2: after placeMines every non-mine cell's value is the number of mines
\* among its in-bounds neighbours (recounted from the returned board, no
\* wraparound).
C2_NumbersAreNeighbourCounts ==
    call.op = "placeMines"
    => \A x \in Cells(call.out) :
          call.out[x[1]][x[2]].value # MINE
          => call.out[x[1]][x[2]].value =
                Cardinality(Neighbors(call.out, x[1], x[2]) \cap MineCells(call.out))

\* placeMines has returned a board with a cell on the grid's edge that
\* counts two mines and a cell that counts none
C2_Witness ==
    /\ call.op = "placeMines"
    /\ \E x \in Cells(call.out) :
          /\ call.out[x[1]][x[2]].value = 2
          /\ Cardinality(Neighbors(call.out, x[1], x[2])) < 8
    /\ \E x \in Cells(call.out) : call.out[x[1]][x[2]].value = 0

\* the cells revealCell reaches from (r, c): the least set holding (r, c)
\* and every HIDDEN neighbour of a value-0 cell of the set
RECURSIVE HiddenClosure(_, _)
HiddenClosure(b, S) ==
    LET grown == S \cup {q \in Cells(b) :
                    /\ b[q[1]][q[2]].state = HIDDEN
                    /\ \E z \in S : /\ b[z[1]][z[2]].value = 0
                                    /\ q \in Neighbors(b, z[1], z[2])}
    IN  IF grown = S THEN S ELSE HiddenClosure(b, grown)

\* the 8-neighbour-connected region of value-0 cells around the cells of S,
\* whatever the state of its cells
RECURSIVE ZeroRegion(_, _)
ZeroRegion(b, S) ==
    LET grown == S \cup {q \in Cells(b) :
                    /\ b[q[1]][q[2]].value = 0
                    /\ \E z \in S : q \in Neighbors(b, z[1], z[2])}
    IN  IF grown = S THEN S ELSE ZeroRegion(b, grown)

\* the region of (r, c) and the cells bordering it
RegionWithBorder(b, r, c) ==
    LET region == ZeroRegion(b, {<<r, c>>})
    IN  region \cup {q \in Cells(b) : \E z \in region : q \in Neighbors(b, z[1], z[2])}

\* b with the cells of S set to REVEALED and nothing else changed
RevealedIn(b, S) ==
    [r \in DOMAIN b |->
        [c \in DOMAIN b[r] |->
            IF <<r, c>> \in S THEN [b[r][c] EXCEPT !.state = REVEALED] ELSE b[r][c]]]

\* revealCell was called on a HIDDEN value-0 cell
RevealedZero ==
    /\ call.op = "revealCell"
    /\ board[call.row][call.col].state = HIDDEN
    /\ board[call.row][call.col].value = 0

\* a board as play produces it: no mine is revealed
NoMineRevealed(b) ==
    \A x \in MineCells(b) : b[x[1]][x[2]].state = HIDDEN \/ b[x[1]][x[2]].state = FLAGGED

\* C3 as stated: revealCell on a hidden value-0 cell reveals every cell of
\* the cell's connected value-0 region and of the region's border, and no
\* cell outside them.
C3_RevealsWholeRegion ==
    (RevealedZero /\ NoMineRevealed(board))
    => \A x \in Cells(board) :
          IF x \in RegionWithBorder(board, call.row, call.col)
          THEN call.out[x[1]][x[2]].state = REVEALED
          ELSE call.out[x[1]][x[2]] = board[x[1]][x[2]]

\* C3, amended: revealCell on a hidden value-0 cell reveals exactly the
\* HIDDEN cells reachable from it by 8-neighbour steps through HIDDEN
\* value-0 cells (a flagged or already revealed cell is neither changed nor
\* expanded through), all of them inside the region and its border; it
\* changes nothing else and reports no mine hit. On a board with no mines
\* and every cell hidden the call reveals the entire board.
C3_RevealsHiddenClosure ==
    RevealedZero
    => /\ call.out = RevealedIn(board, HiddenClosure(board, {<<call.row, call.col>>}))
       /\ HiddenClosure(board, {<<call.row, call.col>>})
             \subseteq RegionWithBorder(board, call.row, call.col)
       /\ ~call.hitMine
       /\ (/\ MineCells(board) = {}
           /\ \A x \in Cells(board) : board[x[1]][x[2]].state = HIDDEN)
          => \A x \in Cells(board) : call.out[x[1]][x[2]].state = REVEALED

\* a flood fill over several cells that stops at a flagged value-0 cell of
\* the region and at the numbers of the border, leaving a non-mine hidden
C3_Witness ==
    /\ RevealedZero
    /\ Cardinality(HiddenClosure(board, {<<call.row, call.col>>})) >= 3
    /\ \E x \in ZeroRegion(board, {<<call.row, call.col>>}) :
          /\ board[x[1]][x[2]].state = FLAGGED
          /\ call.out[x[1]][x[2]].state = FLAGGED
    /\ \E x \in Cells(board) :
          /\ call.out[x[1]][x[2]].state = REVEALED
          /\ call.out[x[1]][x[2]].value > 0
    /\ \E x \in Cells(board) :
          /\ call.out[x[1]][x[2]].state = HIDDEN
          /\ call.out[x[1]][x[2]].value # MINE

\* C4: revealCell on a hidden mine returns hitMine = true, sets that cell to
\* revealed and exploded, does no flood fill and leaves every other cell as
\* it was.
C4_MineHit ==
    (/\ call.op = "revealCell"
     /\ board[call.row][call.col].state = HIDDEN
     /\ board[call.row][call.col].value = MINE)
    => /\ call.hitMine
       /\ call.queue = <<>>
       /\ call.out[call.row][call.col].state = REVEALED
       /\ call.out[call.row][call.col].isExploded
       /\ call.out[call.row][call.col].value = MINE
       /\ \A x \in Cells(board) :
             x # <<call.row, call.col>> => call.out[x[1]][x[2]] = board[x[1]][x[2]]

\* a mine was hit next to a hidden value-0 cell while another mine is hidden
C4_Witness ==
    /\ call.op = "revealCell"
    /\ call.hitMine
    /\ \E x \in MineCells(board) :
          x # <<call.row, call.col>> /\ call.out[x[1]][x[2]].state = HIDDEN
    /\ \E x \in Cells(board) :
          /\ call.out[x[1]][x[2]].state = HIDDEN
          /\ call.out[x[1]][x[2]].value # MINE

\* C5: revealCell on a cell that is not hidden returns hitMine = false and a
\* board equal to the input in every cell, also when the cell holds a mine;
\* and a second revealCell on the same cell changes nothing more.
C5_NotHiddenIsNoOp ==
    call.op = "revealCell"
    => /\ board[call.row][call.col].state # HIDDEN
             => (~call.hitMine /\ call.out = board)
       /\ revealCell(call.out, call.row, call.col).board = call.out
       /\ ~revealCell(call.out, call.row, call.col).hitMine

\* revealCell was called on a flagged mine
C5_Witness ==
    /\ call.op = "revealCell"
    /\ board[call.row][call.col].state = FLAGGED
    /\ board[call.row][call.col].value = MINE
    /\ ~call.hitMine

\* C6: checkWin(board, mines) is true exactly when the number of hidden
\* cells plus the number of flagged cells equals mines.
C6_CheckWin ==
    call.op = "checkWin"
    => (call.win <=>
          Cardinality({x \in Cells(board) : board[x[1]][x[2]].state = HIDDEN})
          + Cardinality(FlaggedCells(board)) = call.mines)

\* checkWin answered true on a board with a flagged cell
C6_Witness ==
    /\ call.op = "checkWin"
    /\ call.win
    /\ FlaggedCells(board) # {}
    /\ call.mines >= 1

\* C7: revealAllMines returns every mine revealed, whatever its state was,
\* and every other cell as it was; no value and no exploded mark changes.
C7_RevealAllMines ==
    call.op = "revealAllMines"
    => \A x \in Cells(board) :
          IF board[x[1]][x[2]].value = MINE
          THEN call.out[x[1]][x[2]] = [board[x[1]][x[2]] EXCEPT !.state = REVEALED]
          ELSE call.out[x[1]][x[2]] = board[x[1]][x[2]]

\* revealAllMines ran on a board with a flagged mine, a hidden mine and a
\* hidden cell that is no mine
C7_Witness ==
    /\ call.op = "revealAllMines"
    /\ \E x \in MineCells(board) : board[x[1]][x[2]].state = FLAGGED
    /\ \E x \in MineCells(board) : board[x[1]][x[2]].state = HIDDEN
    /\ \E x \in Cells(board) :
          /\ board[x[1]][x[2]].value # MINE
          /\ call.out[x[1]][x[2]].state = HIDDEN

\* C8: no engine function modifies the board it is given: after the call
\* the caller's board equals the board passed in.
C8_InputUnmodified ==
    call.op # "none" => call.input = board

\* C15: for positive rows and cols, createEmptyBoard(rows, cols) returns
\* rows rows of cols cells each, rows*cols cells in all, the cell at
\* position (r, c) carrying row = r and col = c, each of value 0 and HIDDEN.
C15_EmptyBoard ==
    call.op = "createEmptyBoard" =>
        /\ DOMAIN call.out = 0..(call.row - 1)
        /\ \A r \in DOMAIN call.out :
              /\ DOMAIN call.out[r] = 0..(call.col - 1)
              /\ \A c \in DOMAIN call.out[r] :
                    /\ call.out[r][c].row = r
                    /\ call.out[r][c].col = c
                    /\ call.out[r][c].value = 0
                    /\ call.out[r][c].state = HIDDEN
        /\ Cardinality(Cells(call.out)) = call.row * call.col

\* createEmptyBoard(2, 3) has returned: the two dimensions differ
C15_Witness ==
    /\ call.op = "createEmptyBoard"
    /\ call.row = 2
    /\ call.col = 3
    /\ Cardinality(Cells(call.out)) = 6

\* C17: in revealCell's flood fill every cell is enqueued at most once, and
\* only a cell that the call turns from HIDDEN to REVEALED; so the queue
\* never holds more than rows*cols entries, and the loop, which takes one
\* entry per round, ends after at most rows*cols rounds.
C17_QueueBounded ==
    call.op = "revealCell" =>
        /\ \A i, j \in DOMAIN call.queue :
              i # j => call.queue[i] # call.queue[j]
        /\ \A i \in DOMAIN call.queue :
              /\ call.queue[i] \in Cells(board)
              /\ board[call.queue[i][1]][call.queue[i][2]].state = HIDDEN
              /\ call.out[call.queue[i][1]][call.queue[i][2]].state = REVEALED
        /\ Len(call.queue) <= NumRows(board) * NumCols(board)

\* a flood fill that enqueued at least three cells and revealed a number,
\* which it did not enqueue
C17_Witness ==
    /\ call.op = "revealCell"
    /\ Len(call.queue) >= 3
    /\ \E x \in Cells(board) :
          /\ board[x[1]][x[2]].state = HIDDEN
          /\ call.out[x[1]][x[2]].state = REVEALED
          /\ call.out[x[1]][x[2]].value > 0
          /\ \A i \in DOMAIN call.queue : call.queue[i] # x

\* the cells the call turned from HIDDEN to REVEALED
NewlyRevealed ==
    {x \in Cells(board) :
        /\ board[x[1]][x[2]].state = HIDDEN
        /\ call.out[x[1]][x[2]].state = REVEALED}

\* C18: revealCell changes no cell that is FLAGGED or already REVEALED, and
\* does not expand the flood fill through such a cell: every cell it
\* reveals is the target or a neighbour of a value-0 cell that the same
\* call revealed; a flagged value-0 cell stays flagged and is never
\* enqueued, so no neighbour is revealed on its account.
C18_NonHiddenUntouched ==
    call.op = "revealCell" =>
        /\ \A x \in Cells(board) :
              board[x[1]][x[2]].state # HIDDEN
                  => call.out[x[1]][x[2]] = board[x[1]][x[2]]
        /\ \A x \in NewlyRevealed :
              \/ x = <<call.row, call.col>>
              \/ \E z \in NewlyRevealed \cap Neighbors(board, x[1], x[2]) :
                    board[z[1]][z[2]].value = 0
        /\ \A i \in DOMAIN call.queue :
              board[call.queue[i][1]][call.queue[i][2]].state = HIDDEN

\* a flood fill has run next to a flagged value-0 cell: the cell is still
\* flagged, and a hidden neighbour of it that no revealed value-0 cell
\* touches is still hidden
C18_Witness ==
    /\ call.op = "revealCell"
    /\ Cardinality(NewlyRevealed) >= 2
    /\ \E f \in Cells(board) :
          /\ board[f[1]][f[2]].state = FLAGGED
          /\ board[f[1]][f[2]].value = 0
          /\ call.out[f[1]][f[2]].state = FLAGGED
          /\ NewlyRevealed \cap Neighbors(board, f[1], f[2]) # {}
          /\ \E n \in Neighbors(board, f[1], f[2]) :
                /\ call.out[n[1]][n[2]].state = HIDDEN
                /\ call.out[n[1]][n[2]].value # MINE

-----------------------------------------------------------------------------
(* Properties of the loop of placeMines, under SpecPlace *)

\* rows*cols - safeZoneSize: the cells outside the in-bounds 3x3 block of
\* the safe cell
RoomForMines ==
    difficulty.rows * difficulty.cols
        - Cardinality(Block(difficulty.rows, difficulty.cols, call.row, call.col))

\* C19 as stated: under fair sampling placeMines returns when
\* mines < rows*cols - safeZoneSize, and never returns when that
\* precondition is violated.
C19_ReturnsIffBelowRoom ==
    /\ (difficulty.mines < RoomForMines) ~> (call.op = "placeMines:returned")
    /\ [](~(difficulty.mines < RoomForMines) => call.op # "placeMines:returned")

\* C19, amended: under fair sampling placeMines returns when
\* mines <= rows*cols - safeZoneSize (the mines may fill every cell outside
\* the safe zone), and never returns when mines > rows*cols - safeZoneSize:
\* the loop then runs on with every cell outside the safe zone mined.
C19_ReturnsIffRoom ==
    /\ (difficulty.mines <= RoomForMines) ~> (call.op = "placeMines:returned")
    /\ [](difficulty.mines > RoomForMines
            => /\ call.op = "placeMines:loop"
               /\ call.minesPlaced <= RoomForMines
               /\ call.minesPlaced < difficulty.mines)

\* the loop is stuck with a quota above the room: a mine is placed, every
\* cell outside the safe zone is mined and the quota is unmet
C19_Witness ==
    /\ call.op = "placeMines:loop"
    /\ difficulty.mines > RoomForMines
    /\ call.minesPlaced = RoomForMines
    /\ call.minesPlaced >= 1
    /\ Accepted(call.out, difficulty, SafeZone(call.row, call.col)) = {}

-----------------------------------------------------------------------------
(* Properties of the session, under Spec *)

\* the step is a reset: initGame for the difficulty now selected
IsReset ==
    /\ gameStatus' = IDLE
    /\ board' = createEmptyBoard(difficulty'.rows, difficulty'.cols)
    /\ minesLeft' = difficulty'.mines

\* C9: once the status is WON or LOST, a step changes none of the board, the
\* status and the remaining-mine counter (every click and every flag action
\* is ignored) unless it is a reset; only a reset leaves WON or LOST.
C9_TerminalStates ==
    [][ (gameStatus = WON \/ gameStatus = LOST)
            => (UNCHANGED <<board, gameStatus, minesLeft>> \/ IsReset) ]_vars

\* the game is won with cells still hidden, or lost with a flag standing
\* and cells still hidden: clicks and flag actions have cells to act on
C9_Witness ==
    \/ /\ gameStatus = WON
       /\ Cardinality({x \in Cells(board) : board[x[1]][x[2]].state = HIDDEN}) >= 2
    \/ /\ gameStatus = LOST
       /\ FlaggedCells(board) # {}
       /\ \E x \in Cells(board) : board[x[1]][x[2]].state = HIDDEN

\* C10 as stated: in every reachable state the remaining-mine counter is the
\* difficulty's mine count minus the number of flagged cells.
C10_CounterEverywhere ==
    minesLeft = difficulty.mines - Cardinality(FlaggedCells(board))

\* C10, amended: while the status is IDLE or PLAYING the counter is the mine
\* count minus the number of flagged cells; a win sets the counter to 0, and
\* after a loss (where the flagged mines are turned to revealed) the counter
\* is at most the mine count minus the flagged cells.
C10_CounterWhilePlaying ==
    /\ gameStatus \in {IDLE, PLAYING}
          => minesLeft = difficulty.mines - Cardinality(FlaggedCells(board))
    /\ gameStatus = WON => minesLeft = 0
    /\ gameStatus = LOST
          => minesLeft <= difficulty.mines - Cardinality(FlaggedCells(board))

\* a flag stands on the board of a game in play, after a reveal
C10_Witness ==
    /\ gameStatus = PLAYING
    /\ FlaggedCells(board) # {}
    /\ minesLeft = difficulty.mines - 1
    /\ \E x \in Cells(board) : board[x[1]][x[2]].state = REVEALED

\* the state of cell x goes from `from` to `to` in the step
Turns(x, from, to) ==
    /\ board[x[1]][x[2]].state = from
    /\ board'[x[1]][x[2]].state = to

\* C11 as stated: within one session (a step that is not a reset) the state
\* of a cell changes only from hidden to revealed, from hidden to flagged or
\* from flagged to hidden; a revealed cell stays revealed and no cell goes
\* from flagged directly to revealed.
C11_ThreeTransitionsOnly ==
    [][ ~IsReset =>
          /\ Cells(board') = Cells(board)
          /\ \A x \in Cells(board) :
                \/ board'[x[1]][x[2]].state = board[x[1]][x[2]].state
                \/ Turns(x, HIDDEN, REVEALED)
                \/ Turns(x, HIDDEN, FLAGGED)
                \/ Turns(x, FLAGGED, HIDDEN) ]_vars

\* C11, amended: within one session the state of a cell changes only from
\* hidden to revealed, from hidden to flagged, from flagged to hidden, or,
\* for a mine cell on the click that loses the game, from flagged to
\* revealed (revealAllMines); a revealed cell stays revealed, and a flagged
\* cell that is not a mine never goes directly to revealed.
C11_TransitionsWithLoss ==
    [][ ~IsReset =>
          /\ Cells(board') = Cells(board)
          /\ \A x \in Cells(board) :
                \/ board'[x[1]][x[2]].state = board[x[1]][x[2]].state
                \/ Turns(x, HIDDEN, REVEALED)
                \/ Turns(x, HIDDEN, FLAGGED)
                \/ Turns(x, FLAGGED, HIDDEN)
                \/ /\ Turns(x, FLAGGED, REVEALED)
                   /\ board[x[1]][x[2]].value = MINE
                   /\ gameStatus = PLAYING
                   /\ gameStatus' = LOST ]_vars

\* a game in play with a revealed cell, a flagged cell and a hidden cell:
\* every kind of cell is there for the next click or flag action
C11_Witness ==
    /\ gameStatus = PLAYING
    /\ \E x \in Cells(board) : board[x[1]][x[2]].state = REVEALED
    /\ \E x \in MineCells(board) : board[x[1]][x[2]].state = FLAGGED
    /\ \E x \in MineCells(board) : board[x[1]][x[2]].state = HIDDEN
    /\ \E x \in Cells(board) \ MineCells(board) : board[x[1]][x[2]].state = HIDDEN

\* C12: whenever the status is WON, every cell that is not a mine is
\* revealed and no mine is revealed: the hidden-or-flagged cells are exactly
\* the mines.
C12_WonBoard ==
    gameStatus = WON =>
        /\ \A x \in Cells(board) \ MineCells(board) :
              board[x[1]][x[2]].state = REVEALED
        /\ \A x \in MineCells(board) : board[x[1]][x[2]].state # REVEALED
        /\ {x \in Cells(board) : board[x[1]][x[2]].state \in {HIDDEN, FLAGGED}}
              = MineCells(board)

\* a game won on a board of two mines, one flagged and one left hidden
C12_Witness ==
    /\ gameStatus = WON
    /\ Cardinality(MineCells(board)) = 2
    /\ \E x \in MineCells(board) : board[x[1]][x[2]].state = FLAGGED
    /\ \E x \in MineCells(board) : board[x[1]][x[2]].state = HIDDEN

-----------------------------------------------------------------------------
(* Properties of the session with hints and timer, under SpecHint *)

\* C13: a hint request changes none of the board, the status and the
\* remaining-mine counter, neither when it leaves nor when it returns, with
\* a hint or with nothing; getAIHint returns nothing, and no error, when
\* the API key is missing, the call fails or the response is empty or not
\* JSON; and while the request is out, hence when it returns nothing, no
\* hint is displayed.
C13_HintFrame ==
    /\ [][ isAiThinking' # isAiThinking
             => /\ UNCHANGED <<difficulty, board, gameStatus, minesLeft, timer>>
                /\ aiHint' \in HintValues \cup {NoHint}
                /\ isAiThinking' => aiHint' = NoHint ]_vars
    /\ [](isAiThinking => aiHint = NoHint)
    /\ [](\A apiKey \in BOOLEAN, reply \in Replies :
            (~apiKey \/ reply.kind # "json")
                => getAIHint(apiKey, reply) = NoHint)

\* a request is out on a board in play, a flag standing, the counter below
\* the mine count and the timer running
C13_Witness ==
    /\ isAiThinking
    /\ gameStatus = PLAYING
    /\ FlaggedCells(board) # {}
    /\ minesLeft < difficulty.mines
    /\ timer > 0

\* the state a reset leaves: status IDLE, a rows x cols board of hidden
\* cells of value 0, none exploded, the counter at the mine count, timer 0,
\* no hint
FreshSession ==
    /\ gameStatus' = IDLE
    /\ DOMAIN board' = 0..(difficulty'.rows - 1)
    /\ \A r \in DOMAIN board' :
          /\ DOMAIN board'[r] = 0..(difficulty'.cols - 1)
          /\ \A c \in DOMAIN board'[r] :
                /\ board'[r][c].state = HIDDEN
                /\ board'[r][c].value = 0
                /\ board'[r][c].isExploded = FALSE
    /\ minesLeft' = difficulty'.mines
    /\ timer' = 0
    /\ aiHint' = NoHint

\* C14 as stated: a reset, from any state, leaves the fresh session; the
\* status then becomes PLAYING on the first reveal of a hidden cell, and
\* not before.
C14_ResetThenPlaying ==
    /\ [][ (Reset \/ ChangeDifficulty) => FreshSession ]_vars
    /\ [][ (gameStatus = IDLE /\ gameStatus' # IDLE)
             => /\ gameStatus' = PLAYING
                /\ \E x \in Cells(board) : Turns(x, HIDDEN, REVEALED) ]_vars
    /\ [](gameStatus = IDLE
             => \A x \in Cells(board) : board[x[1]][x[2]].state # REVEALED)

\* C14, amended: a reset, from any state, leaves the fresh session; the
\* status then leaves IDLE on the first reveal of a hidden cell, and not
\* before (flag actions leave it IDLE): it becomes PLAYING, or WON at once
\* when that reveal leaves no cell hidden or flagged but as many as there
\* are mines.
C14_ResetThenFirstReveal ==
    /\ [][ (Reset \/ ChangeDifficulty) => FreshSession ]_vars
    /\ [][ (gameStatus = IDLE /\ gameStatus' # IDLE)
             => /\ \E x \in Cells(board) : Turns(x, HIDDEN, REVEALED)
                /\ IF Cardinality({x \in Cells(board') :
                          board'[x[1]][x[2]].state # REVEALED}) = difficulty.mines
                   THEN gameStatus' = WON
                   ELSE gameStatus' = PLAYING ]_vars
    /\ [](gameStatus = IDLE
             => \A x \in Cells(board) : board[x[1]][x[2]].state # REVEALED)

\* a game in play with everything a reset undoes: mines placed, a cell
\* revealed, a flag standing, the timer run and a hint on display
C14_Witness ==
    /\ gameStatus = PLAYING
    /\ MineCells(board) # {}
    /\ FlaggedCells(board) # {}
    /\ timer = MaxTimer
    /\ aiHint # NoHint
    /\ minesLeft # difficulty.mines

-----------------------------------------------------------------------------
(* Further properties of the session, under Spec *)

\* the value of every cell of b, by position
ValuesOf(b) == [x \in Cells(b) |-> b[x[1]][x[2]].value]

\* C16: within one session the mines are placed at most once, on the reveal
\* that leaves IDLE: while the status is IDLE no cell has a mine or a
\* number, and a step changes the value of a cell or the dimensions of the
\* board only if it leaves IDLE or is a reset; after the placement no
\* reveal, flag, unflag or end-of-game step changes them.
C16_ValuesFixedAfterPlacement ==
    /\ [](gameStatus = IDLE
            => \A x \in Cells(board) : board[x[1]][x[2]].value = 0)
    /\ [][ ValuesOf(board') # ValuesOf(board)
             => \/ gameStatus = IDLE /\ gameStatus' # IDLE
                \/ IsReset ]_vars

\* a lost game of two mines with a number next to them: placement, reveals,
\* a flag and the end-of-game reveal have all acted on the board
C16_Witness ==
    /\ gameStatus = LOST
    /\ Cardinality(MineCells(board)) = 2
    /\ \E x \in Cells(board) :
          /\ board[x[1]][x[2]].value > 0
          /\ board[x[1]][x[2]].state = REVEALED
    /\ \E x \in Cells(board) : board[x[1]][x[2]].state = FLAGGED

\* the cells carrying the exploded mark
ExplodedCells(b) == {x \in Cells(b) : b[x[1]][x[2]].isExploded}

\* C20: in every reachable state at most one cell is exploded, an exploded
\* cell is a mine in REVEALED state, and there is an exploded cell exactly
\* when the status is LOST; while the status is IDLE, PLAYING or WON no
\* mine is revealed, and when it is LOST every mine is revealed.
C20_ExplodedIffLost ==
    /\ Cardinality(ExplodedCells(board)) <= 1
    /\ \A x \in ExplodedCells(board) :
          /\ board[x[1]][x[2]].value = MINE
          /\ board[x[1]][x[2]].state = REVEALED
    /\ ExplodedCells(board) # {} <=> gameStatus = LOST
    /\ gameStatus # LOST
          => \A x \in MineCells(board) : board[x[1]][x[2]].state # REVEALED
    /\ gameStatus = LOST
          => \A x \in MineCells(board) : board[x[1]][x[2]].state = REVEALED

\* a lost game of two mines, one exploded and one not, with a flag still
\* standing on a cell that is no mine
C20_Witness ==
    /\ gameStatus = LOST
    /\ Cardinality(MineCells(board)) = 2
    /\ Cardinality(ExplodedCells(board)) = 1
    /\ \E x \in Cells(board) \ MineCells(board) :
          board[x[1]][x[2]].state = FLAGGED

\* C22: the first reveal of a session never loses.  A step that takes the
\* session out of IDLE, or reveals a cell in IDLE, hits no mine: the status
\* does not become LOST and no cell is exploded; some hidden cell, the one
\* clicked, has value 0 and is revealed after the step, and so is each of
\* its in-bounds neighbours that was not flagged (the flagged ones stay
\* flagged).
C22_FirstRevealIsSafe ==
    [][ (/\ gameStatus = IDLE
         /\ ~IsReset
         /\ \/ gameStatus' # IDLE
            \/ \E x \in Cells(board') : board'[x[1]][x[2]].state = REVEALED)
        => /\ gameStatus' # LOST
           /\ ExplodedCells(board') = {}
           /\ \E x \in Cells(board) :
                 /\ board[x[1]][x[2]].state = HIDDEN
                 /\ board'[x[1]][x[2]].state = REVEALED
                 /\ board'[x[1]][x[2]].value = 0
                 /\ \A n \in Neighbors(board, x[1], x[2]) :
                       IF board[n[1]][n[2]].state = FLAGGED
                       THEN board'[n[1]][n[2]].state = FLAGGED
                       ELSE board'[n[1]][n[2]].state = REVEALED ]_vars

\* a game in play on a board of two mines where a revealed cell of value 0
\* has a flagged neighbour: the flag was set before the first reveal
C22_Witness ==
    /\ gameStatus = PLAYING
    /\ Cardinality(MineCells(board)) = 2
    /\ \E x \in Cells(board) :
          /\ board[x[1]][x[2]].state = REVEALED
          /\ board[x[1]][x[2]].value = 0
          /\ \E n \in Neighbors(board, x[1], x[2]) :
                /\ board[n[1]][n[2]].state = FLAGGED
                /\ board[n[1]][n[2]].value = 0

-----------------------------------------------------------------------------
(* Properties of the session of a player who goes on playing, under SpecPlay *)

\* the flagged cells of b that hold no mine
WrongFlags(b) == FlaggedCells(b) \ MineCells(b)

\* C21 as stated: a session reaches status WON while a flag sits on a cell
\* that holds no mine.
C21_WonWithWrongFlag ==
    <>(gameStatus = WON /\ WrongFlags(board) # {})

\* C21, amended: no session reaches status WON while a flag sits on a cell
\* that holds no mine: in every state with status WON every flagged cell
\* holds a mine, and while a wrong flag stands on a board in play the win
\* check fails, the hidden and flagged cells being more than the mines.
C21_NoWinWithWrongFlag ==
    /\ gameStatus = WON => WrongFlags(board) = {}
    /\ (gameStatus = PLAYING /\ WrongFlags(board) # {})
          => /\ ~checkWin(board, difficulty.mines)
             /\ Cardinality({x \in Cells(board) :
                    board[x[1]][x[2]].state # REVEALED}) > difficulty.mines

\* a game in play on a mined board where a wrong flag stands and every
\* other cell that holds no mine is revealed: only the flag withholds the win
C21_Witness ==
    /\ gameStatus = PLAYING
    /\ MineCells(board) # {}
    /\ WrongFlags(board) # {}
    /\ \A x \in Cells(board) \ MineCells(board) :
          board[x[1]][x[2]].state \in {REVEALED, FLAGGED}

-----------------------------------------------------------------------------
(* The hint and the board in play, under SpecHint *)

\* C23: a displayed hint belongs to the board in play: whenever a hint is
\* displayed, it is the reply to a request that left after the last reveal
\* move and the last reset that changed the board; the reply to a request
\* that such a move or reset has overtaken is never shown.
C23_HintOfBoardInPlay ==
    aiHint # NoHint => (call.op = "getAIHint:returned" /\ ~call.outdated)

=============================================================================
